---- MODULE Spec2Model ----
(***************************************************************************)
(* Model of the self-draining Buffer of src/main.go: producers call Add,   *)
(* a chain of sendData goroutines pops one item each and hands it to       *)
(* sendToAPI, and a waiter blocks in wg.Wait().  Every statement that      *)
(* touches shared state (mu, data, isSending, wg) is one step.             *)
(***************************************************************************)
EXTENDS Integers, Sequences, FiniteSets, TLC

\* ---- bounds ----
NumProducers == 2
MaxItems == 3
\* number of Add calls in the specifications with fairness
LiveItems == 2

Producers == 1..NumProducers
\* every activation that is not an early exit pops one item
MaxAct == MaxItems
Acts == 1..MaxAct
\* the k-th item passed to Add by producer p
Items == Producers \X (1..MaxItems)

NoItem == <<0, 0>>
NoHolder == <<"none", 0>>
Prod(p) == <<"producer", p>>
Act(a) == <<"sendData", a>>

\* environment of one sendToAPI call: which library call fails, and the HTTP status
StatusOK == 200
Statuses == {StatusOK, 500}
\* values of the STATUS field of a decoded response
ApiStatuses == {"OK", "ERROR"}
Envs == [reqErr : BOOLEAN, doErr : BOOLEAN, readErr : BOOLEAN,
         jsonErr : BOOLEAN, status : Statuses, apiStatus : ApiStatuses]
\* no sendToAPI call is being followed
NoEnv == [reqErr |-> FALSE, doErr |-> FALSE, readErr |-> FALSE,
          jsonErr |-> FALSE, status |-> StatusOK, apiStatus |-> "OK"]

VARIABLES
  data,       \* b.data: the queue
  mu,         \* holder of b.mu
  isSending,  \* b.isSending
  wg,         \* counter of b.wg
  ppc,        \* position of each producer inside Add
  added,      \* number of Add calls each producer has made
  apc,        \* position of each sendData goroutine
  item,       \* local variable `item` of each sendData goroutine
  nact,       \* number of sendData goroutines created by `go b.sendData()`
  wpc,        \* position of the caller of b.wg.Wait()
  enq,        \* history: items in the order they were appended to b.data
  sent,       \* history: items in the order sendToAPI was called with them
  outcomes,   \* history: outcome of each returned sendToAPI call, in order
  sinkEnv,    \* one sendToAPI call followed statement by statement: its environment,
  sinkpc,     \*   its position,
  printed     \*   and the messages it has printed

vars == <<data, mu, isSending, wg, ppc, added, apc, item, nact,
          wpc, enq, sent, outcomes, sinkEnv, sinkpc, printed>>

bufVars == <<data, mu, isSending, wg>>
prodVars == <<ppc, added>>
actVars == <<apc, item, nact>>
waitVars == <<wpc>>
histVars == <<enq, sent, outcomes>>
sinkVars == <<sinkEnv, sinkpc, printed>>

Range(s) == {s[i] : i \in 1..Len(s)}
IsPrefix(s, t) == Len(s) <= Len(t) /\ \A i \in 1..Len(s) : s[i] = t[i]
TotalAdded == LET RECURSIVE Sum(_)
                  Sum(n) == IF n = 0 THEN 0 ELSE added[n] + Sum(n - 1)
              IN Sum(NumProducers)

\* NewBuffer: empty queue, unlocked mutex, isSending false, fresh WaitGroup
Init ==
  /\ data = <<>>
  /\ mu = NoHolder
  /\ isSending = FALSE
  /\ wg = 0
  /\ ppc = [p \in Producers |-> "idle"]
  /\ added = [p \in Producers |-> 0]
  /\ apc = [a \in Acts |-> "unborn"]
  /\ item = [a \in Acts |-> NoItem]
  /\ nact = 0
  /\ wpc = "idle"
  /\ enq = <<>>
  /\ sent = <<>>
  /\ outcomes = <<>>
  /\ sinkEnv = NoEnv
  /\ sinkpc = "off"
  /\ printed = <<>>

\* an Add is running: between the call and the return
InAdd(p) == ppc[p] # "idle"
AnyInAdd == \E p \in Producers : InAdd(p)

\* ---- Buffer.Add ----
\* a producer calls Add(item)
AddCall(p) ==
  /\ ppc[p] = "idle"
  /\ TotalAdded < MaxItems
  /\ ppc' = [ppc EXCEPT ![p] = "l60"]
  /\ added' = [added EXCEPT ![p] = @ + 1]
  /\ UNCHANGED <<bufVars, actVars, waitVars, histVars>>
  /\ UNCHANGED sinkVars

\* b.mu.Lock()
AddLock(p) ==
  /\ ppc[p] = "l60"
  /\ mu = NoHolder
  /\ mu' = Prod(p)
  /\ ppc' = [ppc EXCEPT ![p] = "l62"]
  /\ UNCHANGED <<data, isSending, wg, added, actVars, waitVars, histVars>>
  /\ UNCHANGED sinkVars

\* variant of AddAppend: the item is put at the head of the queue
AddAppend_Front(p) ==
  /\ ppc[p] = "l62"
  /\ data' = <<<<p, added[p]>>>> \o data
  /\ enq' = Append(enq, <<p, added[p]>>)
  /\ ppc' = [ppc EXCEPT ![p] = "l63"]
  /\ UNCHANGED <<mu, isSending, wg, added, actVars, waitVars, sent, outcomes>>
  /\ UNCHANGED sinkVars

\* b.data = append(b.data, item)
AddAppend(p) ==
  /\ ppc[p] = "l62"
  /\ data' = Append(data, <<p, added[p]>>)
  /\ enq' = Append(enq, <<p, added[p]>>)
  /\ ppc' = [ppc EXCEPT ![p] = "l63"]
  /\ UNCHANGED <<mu, isSending, wg, added, actVars, waitVars, sent, outcomes>>
  /\ UNCHANGED sinkVars

\* variant of AddCheck: the isSending test is dropped, every Add starts a drain
AddCheck_Always(p) ==
  /\ ppc[p] = "l63"
  /\ isSending' = TRUE
  /\ ppc' = [ppc EXCEPT ![p] = "l65"]
  /\ UNCHANGED <<data, mu, wg, added, actVars, waitVars, histVars>>
  /\ UNCHANGED sinkVars

\* variant of AddCheck: the branch is taken but isSending is not set
AddCheck_NoFlag(p) ==
  /\ ppc[p] = "l63"
  /\ isSending' = isSending
  /\ ppc' = [ppc EXCEPT ![p] = IF ~isSending THEN "l65" ELSE "l68"]
  /\ UNCHANGED <<data, mu, wg, added, actVars, waitVars, histVars>>
  /\ UNCHANGED sinkVars

\* if !b.isSending { b.isSending = true
AddCheck(p) ==
  /\ ppc[p] = "l63"
  /\ IF ~isSending
       THEN /\ isSending' = TRUE
            /\ ppc' = [ppc EXCEPT ![p] = "l65"]
       ELSE /\ isSending' = isSending
            /\ ppc' = [ppc EXCEPT ![p] = "l68"]
  /\ UNCHANGED <<data, mu, wg, added, actVars, waitVars, histVars>>
  /\ UNCHANGED sinkVars

\* variant of AddWgAdd: the first activation is not counted
AddWgAdd_Skip(p) ==
  /\ ppc[p] = "l65"
  /\ wg' = wg
  /\ ppc' = [ppc EXCEPT ![p] = "l66"]
  /\ UNCHANGED <<data, mu, isSending, added, actVars, waitVars, histVars>>
  /\ UNCHANGED sinkVars

\* b.wg.Add(1)
AddWgAdd(p) ==
  /\ ppc[p] = "l65"
  /\ wg' = wg + 1
  /\ ppc' = [ppc EXCEPT ![p] = "l66"]
  /\ UNCHANGED <<data, mu, isSending, added, actVars, waitVars, histVars>>
  /\ UNCHANGED sinkVars

\* go b.sendData()
AddGo(p) ==
  /\ ppc[p] = "l66"
  /\ nact < MaxAct
  /\ nact' = nact + 1
  /\ apc' = [apc EXCEPT ![nact + 1] = "scheduled"]
  /\ ppc' = [ppc EXCEPT ![p] = "l68"]
  /\ UNCHANGED <<bufVars, added, item, waitVars, histVars>>
  /\ UNCHANGED sinkVars

\* deferred b.mu.Unlock(), then Add returns
AddUnlock(p) ==
  /\ ppc[p] = "l68"
  /\ mu' = NoHolder
  /\ ppc' = [ppc EXCEPT ![p] = "idle"]
  /\ UNCHANGED <<data, isSending, wg, added, actVars, waitVars, histVars>>
  /\ UNCHANGED sinkVars

\* ---- Buffer.sendToAPI ----
\* the message sendToAPI prints for one call, by the first check that fails
sendToAPI(env) ==
  IF env.reqErr THEN "Error creating request"
  ELSE IF env.doErr THEN "Error sending request"
  ELSE IF env.readErr THEN "Error reading response body"
  ELSE IF env.jsonErr THEN "Error unmarshalling JSON"
  ELSE IF env.status # StatusOK THEN "Error response from API"
  ELSE "Data successfully sent to API"

Outcome(env) == IF sendToAPI(env) = "Data successfully sent to API" THEN "ok" ELSE "fail"

\* ---- Buffer.sendToAPI, statement by statement ----
mainVars == <<bufVars, prodVars, actVars, waitVars, histVars>>

\* Println(msg); return
SinkFail(msg) ==
  /\ printed' = Append(printed, msg)
  /\ sinkpc' = "ret"

\* req, err := http.NewRequest(...); if err != nil { ... return }
SinkNewRequest ==
  /\ sinkpc = "l103"
  /\ IF sinkEnv.reqErr
       THEN SinkFail("Error creating request")
       ELSE sinkpc' = "l111" /\ printed' = printed
  /\ UNCHANGED <<mainVars, sinkEnv>>

\* resp, err := client.Do(req); if err != nil { ... return }
SinkDo ==
  /\ sinkpc = "l111"
  /\ IF sinkEnv.doErr
       THEN SinkFail("Error sending request")
       ELSE sinkpc' = "l118" /\ printed' = printed
  /\ UNCHANGED <<mainVars, sinkEnv>>

\* body, err := ioutil.ReadAll(resp.Body); if err != nil { ... return }
SinkReadAll ==
  /\ sinkpc = "l118"
  /\ IF sinkEnv.readErr
       THEN SinkFail("Error reading response body")
       ELSE sinkpc' = "l125" /\ printed' = printed
  /\ UNCHANGED <<mainVars, sinkEnv>>

\* err = json.Unmarshal(body, &response); if err != nil { ... return }
SinkUnmarshal ==
  /\ sinkpc = "l125"
  /\ IF sinkEnv.jsonErr
       THEN SinkFail("Error unmarshalling JSON")
       ELSE sinkpc' = "l131" /\ printed' = printed
  /\ UNCHANGED <<mainVars, sinkEnv>>

\* variant of SinkCheckStatus: the decoded STATUS field decides instead of the HTTP status
SinkCheckStatus_Field ==
  /\ sinkpc = "l131"
  /\ IF sinkEnv.apiStatus # "OK"
       THEN SinkFail("Error response from API")
       ELSE sinkpc' = "l136" /\ printed' = printed
  /\ UNCHANGED <<mainVars, sinkEnv>>

\* if resp.StatusCode != http.StatusOK { ... return }
SinkCheckStatus ==
  /\ sinkpc = "l131"
  /\ IF sinkEnv.status # StatusOK
       THEN SinkFail("Error response from API")
       ELSE sinkpc' = "l136" /\ printed' = printed
  /\ UNCHANGED <<mainVars, sinkEnv>>

\* fmt.Println("Data successfully sent to API", string(body))
SinkSuccess ==
  /\ sinkpc = "l136"
  /\ printed' = Append(printed, "Data successfully sent to API")
  /\ sinkpc' = "ret"
  /\ UNCHANGED <<mainVars, sinkEnv>>

\* one call of sendToAPI in any environment, on an otherwise idle Buffer
SinkInit ==
  /\ data = <<>>
  /\ mu = NoHolder
  /\ isSending = FALSE
  /\ wg = 0
  /\ ppc = [p \in Producers |-> "idle"]
  /\ added = [p \in Producers |-> 0]
  /\ apc = [a \in Acts |-> "unborn"]
  /\ item = [a \in Acts |-> NoItem]
  /\ nact = 0
  /\ wpc = "idle"
  /\ enq = <<>>
  /\ sent = <<>>
  /\ outcomes = <<>>
  /\ sinkEnv \in Envs
  /\ sinkpc = "l103"
  /\ printed = <<>>

SinkNext ==
  \/ SinkNewRequest
  \/ SinkDo
  \/ SinkReadAll
  \/ SinkUnmarshal
  \/ SinkCheckStatus
  \/ SinkSuccess

SinkSpec == SinkInit /\ [][SinkNext]_vars

\* ---- Buffer.sendData ----
\* the goroutine starts running: defer b.wg.Done()
SendDataStart(a) ==
  /\ apc[a] = "scheduled"
  /\ apc' = [apc EXCEPT ![a] = "l73"]
  /\ UNCHANGED <<bufVars, prodVars, item, nact, waitVars, histVars>>
  /\ UNCHANGED sinkVars

\* b.mu.Lock() (first critical section)
SendDataLock1(a) ==
  /\ apc[a] = "l73"
  /\ mu = NoHolder
  /\ mu' = Act(a)
  /\ apc' = [apc EXCEPT ![a] = "l74"]
  /\ UNCHANGED <<data, isSending, wg, prodVars, item, nact, waitVars, histVars>>
  /\ UNCHANGED sinkVars

\* variant of SendDataPop: takes the last element of the queue
SendDataPop_Last(a) ==
  /\ apc[a] = "l74"
  /\ IF Len(data) = 0
       THEN /\ isSending' = FALSE
            /\ apc' = [apc EXCEPT ![a] = "l76"]
            /\ UNCHANGED <<data, item>>
       ELSE /\ item' = [item EXCEPT ![a] = data[Len(data)]]
            /\ data' = SubSeq(data, 1, Len(data) - 1)
            /\ apc' = [apc EXCEPT ![a] = "l81"]
            /\ UNCHANGED isSending
  /\ UNCHANGED <<mu, wg, prodVars, nact, waitVars, histVars>>
  /\ UNCHANGED sinkVars

\* variant of SendDataPop: reads the head without removing it
SendDataPop_Keep(a) ==
  /\ apc[a] = "l74"
  /\ IF Len(data) = 0
       THEN /\ isSending' = FALSE
            /\ apc' = [apc EXCEPT ![a] = "l76"]
            /\ UNCHANGED <<data, item>>
       ELSE /\ item' = [item EXCEPT ![a] = Head(data)]
            /\ data' = data
            /\ apc' = [apc EXCEPT ![a] = "l81"]
            /\ UNCHANGED isSending
  /\ UNCHANGED <<mu, wg, prodVars, nact, waitVars, histVars>>
  /\ UNCHANGED sinkVars

\* variant of SendDataPop: the slice is emptied instead of advanced by one
SendDataPop_DropAll(a) ==
  /\ apc[a] = "l74"
  /\ IF Len(data) = 0
       THEN /\ isSending' = FALSE
            /\ apc' = [apc EXCEPT ![a] = "l76"]
            /\ UNCHANGED <<data, item>>
       ELSE /\ item' = [item EXCEPT ![a] = Head(data)]
            /\ data' = <<>>
            /\ apc' = [apc EXCEPT ![a] = "l81"]
            /\ UNCHANGED isSending
  /\ UNCHANGED <<mu, wg, prodVars, nact, waitVars, histVars>>
  /\ UNCHANGED sinkVars

\* if len(b.data) == 0 { b.isSending = false ... } ; item := b.data[0]; b.data = b.data[1:]
SendDataPop(a) ==
  /\ apc[a] = "l74"
  /\ IF Len(data) = 0
       THEN /\ isSending' = FALSE
            /\ apc' = [apc EXCEPT ![a] = "l76"]
            /\ UNCHANGED <<data, item>>
       ELSE /\ item' = [item EXCEPT ![a] = Head(data)]
            /\ data' = Tail(data)
            /\ apc' = [apc EXCEPT ![a] = "l81"]
            /\ UNCHANGED isSending
  /\ UNCHANGED <<mu, wg, prodVars, nact, waitVars, histVars>>
  /\ UNCHANGED sinkVars

\* variant of SendDataUnlock1: the mutex is kept across the sendToAPI call
SendDataUnlock1_Held(a) ==
  /\ apc[a] \in {"l76", "l81"}
  /\ mu' = IF apc[a] = "l76" THEN NoHolder ELSE mu
  /\ apc' = [apc EXCEPT ![a] = IF apc[a] = "l76" THEN "deferDone" ELSE "l83"]
  /\ UNCHANGED <<data, isSending, wg, prodVars, item, nact, waitVars, histVars>>
  /\ UNCHANGED sinkVars

\* b.mu.Unlock() of the first critical section (either branch)
SendDataUnlock1(a) ==
  /\ apc[a] \in {"l76", "l81"}
  /\ mu' = NoHolder
  /\ apc' = [apc EXCEPT ![a] = IF apc[a] = "l76" THEN "deferDone" ELSE "l83"]
  /\ UNCHANGED <<data, isSending, wg, prodVars, item, nact, waitVars, histVars>>
  /\ UNCHANGED sinkVars

\* b.sendToAPI(item) is called
SendToAPIStart(a) ==
  /\ apc[a] = "l83"
  /\ sent' = Append(sent, item[a])
  /\ apc' = [apc EXCEPT ![a] = "sending"]
  /\ UNCHANGED <<bufVars, prodVars, item, nact, waitVars, enq, outcomes>>
  /\ UNCHANGED sinkVars

\* variant of SendToAPIReturn: a failed item is put back at the head of the queue
SendToAPIReturn_Requeue(a) ==
  /\ apc[a] = "sending"
  /\ \E env \in Envs :
       /\ outcomes' = Append(outcomes, Outcome(env))
       /\ data' = IF Outcome(env) = "fail" THEN <<item[a]>> \o data ELSE data
  /\ apc' = [apc EXCEPT ![a] = "l85"]
  /\ UNCHANGED <<mu, isSending, wg, prodVars, item, nact, waitVars, enq, sent>>
  /\ UNCHANGED sinkVars

\* b.sendToAPI(item) returns, having printed one message
SendToAPIReturn(a) ==
  /\ apc[a] = "sending"
  /\ \E env \in Envs : outcomes' = Append(outcomes, Outcome(env))
  /\ apc' = [apc EXCEPT ![a] = "l85"]
  /\ UNCHANGED <<bufVars, prodVars, item, nact, waitVars, enq, sent>>
  /\ UNCHANGED sinkVars

\* b.mu.Lock() (second critical section)
SendDataLock2(a) ==
  /\ apc[a] = "l85"
  /\ mu = NoHolder
  /\ mu' = Act(a)
  /\ apc' = [apc EXCEPT ![a] = "l87"]
  /\ UNCHANGED <<data, isSending, wg, prodVars, item, nact, waitVars, histVars>>
  /\ UNCHANGED sinkVars

\* variant of SendDataRecheck: a non-empty queue does not lead to a successor
SendDataRecheck_NoSuccessor(a) ==
  /\ apc[a] = "l87"
  /\ isSending' = IF Len(data) = 0 THEN FALSE ELSE isSending
  /\ apc' = [apc EXCEPT ![a] = "deferUnlock"]
  /\ UNCHANGED <<data, mu, wg, prodVars, item, nact, waitVars, histVars>>
  /\ UNCHANGED sinkVars

\* variant of SendDataRecheck: isSending is cleared without looking at the queue
SendDataRecheck_AlwaysClear(a) ==
  /\ apc[a] = "l87"
  /\ isSending' = FALSE
  /\ apc' = [apc EXCEPT ![a] = "deferUnlock"]
  /\ UNCHANGED <<data, mu, wg, prodVars, item, nact, waitVars, histVars>>
  /\ UNCHANGED sinkVars

\* variant of SendDataRecheck: isSending is cleared before the queue is looked at
SendDataRecheck_ClearFirst(a) ==
  /\ apc[a] = "l87"
  /\ isSending' = FALSE
  /\ apc' = [apc EXCEPT ![a] = IF Len(data) = 0 THEN "deferUnlock" ELSE "l90"]
  /\ UNCHANGED <<data, mu, wg, prodVars, item, nact, waitVars, histVars>>
  /\ UNCHANGED sinkVars

\* variant of SendDataRecheck: a successor is created whatever the queue holds
SendDataRecheck_AlwaysGo(a) ==
  /\ apc[a] = "l87"
  /\ isSending' = isSending
  /\ apc' = [apc EXCEPT ![a] = "l90"]
  /\ UNCHANGED <<data, mu, wg, prodVars, item, nact, waitVars, histVars>>
  /\ UNCHANGED sinkVars

\* if len(b.data) == 0 { b.isSending = false } else { ...
SendDataRecheck(a) ==
  /\ apc[a] = "l87"
  /\ IF Len(data) = 0
       THEN /\ isSending' = FALSE
            /\ apc' = [apc EXCEPT ![a] = "deferUnlock"]
       ELSE /\ isSending' = isSending
            /\ apc' = [apc EXCEPT ![a] = "l90"]
  /\ UNCHANGED <<data, mu, wg, prodVars, item, nact, waitVars, histVars>>
  /\ UNCHANGED sinkVars

\* variant of SendDataWgAdd: the successor is not counted
SendDataWgAdd_Missing(a) ==
  /\ apc[a] = "l90"
  /\ wg' = wg
  /\ apc' = [apc EXCEPT ![a] = "l91"]
  /\ UNCHANGED <<data, mu, isSending, prodVars, item, nact, waitVars, histVars>>
  /\ UNCHANGED sinkVars

\* b.wg.Add(1)
SendDataWgAdd(a) ==
  /\ apc[a] = "l90"
  /\ wg' = wg + 1
  /\ apc' = [apc EXCEPT ![a] = "l91"]
  /\ UNCHANGED <<data, mu, isSending, prodVars, item, nact, waitVars, histVars>>
  /\ UNCHANGED sinkVars

\* variant of SendDataGo: two successors are created
SendDataGo_Twice(a) ==
  /\ apc[a] = "l91"
  /\ nact + 1 < MaxAct
  /\ nact' = nact + 2
  /\ apc' = [apc EXCEPT ![a] = "deferUnlock", ![nact + 1] = "scheduled",
                        ![nact + 2] = "scheduled"]
  /\ UNCHANGED <<bufVars, prodVars, item, waitVars, histVars>>
  /\ UNCHANGED sinkVars

\* go b.sendData()
SendDataGo(a) ==
  /\ apc[a] = "l91"
  /\ nact < MaxAct
  /\ nact' = nact + 1
  /\ apc' = [apc EXCEPT ![a] = "deferUnlock", ![nact + 1] = "scheduled"]
  /\ UNCHANGED <<bufVars, prodVars, item, waitVars, histVars>>
  /\ UNCHANGED sinkVars

\* deferred b.mu.Unlock()
SendDataUnlock2(a) ==
  /\ apc[a] = "deferUnlock"
  /\ mu' = NoHolder
  /\ apc' = [apc EXCEPT ![a] = "deferDone"]
  /\ UNCHANGED <<data, isSending, wg, prodVars, item, nact, waitVars, histVars>>
  /\ UNCHANGED sinkVars

\* variant of SendDataDone: wg.Done is not called
SendDataDone_NoDone(a) ==
  /\ apc[a] = "deferDone"
  /\ wg' = wg
  /\ apc' = [apc EXCEPT ![a] = "done"]
  /\ UNCHANGED <<data, mu, isSending, prodVars, item, nact, waitVars, histVars>>
  /\ UNCHANGED sinkVars

\* variant of SendDataDone: wg.Done is called twice on exit
SendDataDone_Double(a) ==
  /\ apc[a] = "deferDone"
  /\ wg' = wg - 2
  /\ apc' = [apc EXCEPT ![a] = "done"]
  /\ UNCHANGED <<data, mu, isSending, prodVars, item, nact, waitVars, histVars>>
  /\ UNCHANGED sinkVars

\* deferred b.wg.Done(); the goroutine exits
SendDataDone(a) ==
  /\ apc[a] = "deferDone"
  /\ wg' = wg - 1
  /\ apc' = [apc EXCEPT ![a] = "done"]
  /\ UNCHANGED <<data, mu, isSending, prodVars, item, nact, waitVars, histVars>>
  /\ UNCHANGED sinkVars

\* ---- main: buffer.wg.Wait() ----
\* main calls buffer.wg.Wait()
WaitCall ==
  /\ wpc = "idle"
  /\ wpc' = "waiting"
  /\ UNCHANGED <<bufVars, prodVars, actVars, histVars>>
  /\ UNCHANGED sinkVars

\* variant of WaitReturn: Wait also looks at the queue and the flag
WaitReturn_Level ==
  /\ wpc = "waiting"
  /\ wg = 0
  /\ data = <<>>
  /\ ~isSending
  /\ wpc' = "returned"
  /\ UNCHANGED <<bufVars, prodVars, actVars, histVars>>
  /\ UNCHANGED sinkVars

\* Wait returns once the counter is observed to be zero
WaitReturn ==
  /\ wpc = "waiting"
  /\ wg = 0
  /\ wpc' = "returned"
  /\ UNCHANGED <<bufVars, prodVars, actVars, histVars>>
  /\ UNCHANGED sinkVars

Producer(p) ==
  \/ AddCall(p)
  \/ AddLock(p)
  \/ AddAppend(p)
  \/ AddCheck(p)
  \/ AddWgAdd(p)
  \/ AddGo(p)
  \/ AddUnlock(p)

Activation(a) ==
  \/ SendDataStart(a)
  \/ SendDataLock1(a)
  \/ SendDataPop(a)
  \/ SendDataUnlock1(a)
  \/ SendToAPIStart(a)
  \/ SendToAPIReturn(a)
  \/ SendDataLock2(a)
  \/ SendDataRecheck(a)
  \/ SendDataWgAdd(a)
  \/ SendDataGo(a)
  \/ SendDataUnlock2(a)
  \/ SendDataDone(a)

Next ==
  \/ \E p \in Producers : Producer(p)
  \/ \E a \in Acts : Activation(a)
  \/ WaitCall
  \/ WaitReturn

Spec == Init /\ [][Next]_vars

\* ---- specifications with the scheduling the runtime provides ----
\* the statements of Add after the call itself
AddBody(p) ==
  \/ AddLock(p)
  \/ AddAppend(p)
  \/ AddCheck(p)
  \/ AddWgAdd(p)
  \/ AddGo(p)
  \/ AddUnlock(p)

\* the statements of sendData other than the return of sendToAPI
SendDataBody(a) ==
  \/ SendDataStart(a)
  \/ SendDataLock1(a)
  \/ SendDataPop(a)
  \/ SendDataUnlock1(a)
  \/ SendToAPIStart(a)
  \/ SendDataLock2(a)
  \/ SendDataRecheck(a)
  \/ SendDataWgAdd(a)
  \/ SendDataGo(a)
  \/ SendDataUnlock2(a)
  \/ SendDataDone(a)

\* the program with at most LiveItems calls of Add
LiveNext == Next /\ TotalAdded' <= LiveItems

\* Goroutines are scheduled fairly: a goroutine whose next statement stays
\* executable eventually executes it, and every sendToAPI call terminates.
\* Producers are free to stop calling Add, and main to never call Wait.
LiveSpec ==
  /\ Init /\ [][LiveNext]_vars
  /\ \A p \in Producers : WF_vars(AddBody(p))
  /\ \A a \in Acts : WF_vars(SendDataBody(a))
  /\ \A a \in Acts : WF_vars(SendToAPIReturn(a))
  /\ WF_vars(WaitReturn)

\* The same scheduling, but a sendToAPI call may never return (hung sink).
HangSpec ==
  /\ Init /\ [][LiveNext]_vars
  /\ \A p \in Producers : WF_vars(AddBody(p))
  /\ \A a \in Acts : WF_vars(SendDataBody(a))

\* ---- derived state ----
InFlight == {a \in Acts : apc[a] = "sending"}
\* activations that are scheduled, or running and not yet past the statement
\* that clears isSending or schedules the successor
Working == {a \in Acts : apc[a] \in {"scheduled", "l73", "l74", "l81", "l83",
                                      "sending", "l85", "l87", "l90", "l91"}}
Live == {a \in Acts : apc[a] \notin {"unborn", "done"}}
\* items whose sendToAPI call has returned
Delivered == {sent[k] : k \in 1..Len(outcomes)}
Count(x, s) == Cardinality({k \in 1..Len(s) : s[k] = x})

\* ---- claims ----

\* C1: at most one sendToAPI call has started and not yet returned, in every
\* reachable state, whatever the number of producers and the interleaving.
C1_AtMostOneInFlight == Cardinality(InFlight) <= 1

\* a call is in flight while a producer holds the lock inside Add with work queued
C1_Witness ==
  /\ Cardinality(InFlight) = 1
  /\ \E p \in Producers : mu = Prod(p)
  /\ Len(data) >= 1

\* C2: the items handed to sendToAPI are a prefix of the items in the order
\* they were appended to the queue, and each producer's own items are handed
\* over in that producer's call order.
C2_FIFO ==
  /\ IsPrefix(sent, enq)
  /\ \A j, k \in 1..Len(sent) :
       (j < k /\ sent[j][1] = sent[k][1]) => sent[j][2] < sent[k][2]

\* three items of two different producers have been handed over
C2_Witness ==
  /\ Len(sent) >= 3
  /\ \E j, k \in 1..Len(sent) : sent[j][1] # sent[k][1]

\* C3: every item is handed to sendToAPI at most once per Add call, and every
\* item handed to sendToAPI was appended by an Add before.
C3_NoDoubleDelivery ==
  /\ \A i \in Items : Count(i, sent) <= Count(i, enq)
  /\ \A i \in Items : Count(i, enq) <= 1
  /\ Range(sent) \subseteq Range(enq)

\* two calls have returned, one failed and one succeeded, and a third is in flight
C3_Witness ==
  /\ Len(sent) >= 3
  /\ "fail" \in Range(outcomes)
  /\ "ok" \in Range(outcomes)

\* C4: under fair scheduling and terminating sendToAPI calls, every item
\* appended by an Add (the n-th appended, for every n) is eventually handed
\* to sendToAPI.
C4_NoLostItem ==
  \A n \in 1..LiveItems :
    (Len(enq) >= n) ~> (Len(enq) >= n /\ enq[n] \in Range(sent))

\* items of both producers were appended and all of them handed over
C4_Witness ==
  /\ Len(enq) >= 2
  /\ Range(sent) = Range(enq)
  /\ \E j, k \in 1..Len(enq) : enq[j][1] # enq[k][1]

\* the outcome of the sendToAPI call made by activation a (after it returned)
OutcomeOf(a) == outcomes[CHOOSE k \in 1..Len(outcomes) : sent[k] = item[a]]

\* C5: the return of a sendToAPI call changes nothing of the Buffer, whether
\* it failed or succeeded; the following re-evaluation depends on the queue
\* only (non-empty: continue the chain with isSending kept, empty: clear
\* isSending); a failed item is not in the queue and is handed over once.
C5_ReturnFrame ==
  \A a \in Acts :
    (apc[a] = "sending" /\ apc'[a] = "l85")
      => UNCHANGED <<data, mu, isSending, wg, nact, item, enq, sent>>

C5_RecheckIgnoresOutcome ==
  \A a \in Acts :
    (apc[a] = "l87" /\ apc'[a] # "l87") =>
      /\ UNCHANGED <<data, wg, nact>>
      /\ Len(data) = 0 => (~isSending' /\ apc'[a] = "deferUnlock")
      /\ Len(data) > 0 => (isSending' /\ apc'[a] = "l90")

C5_FailedNotRetried ==
  \A k \in 1..Len(outcomes) :
    outcomes[k] = "fail" =>
      /\ sent[k] \notin Range(data)
      /\ Count(sent[k], sent) = 1
      /\ k < Len(sent) => sent[k + 1] = enq[k + 1]

C5_FailureIsolation ==
  /\ []C5_FailedNotRetried
  /\ [][C5_ReturnFrame /\ C5_RecheckIgnoresOutcome]_vars

\* a call failed and the item queued behind it was handed over next
C5_Witness ==
  \E k \in 1..Len(outcomes) : outcomes[k] = "fail" /\ Len(sent) > k

\* nothing left to do: empty queue, no drain, no live goroutine, counter zero
Quiescent ==
  /\ data = <<>>
  /\ ~isSending
  /\ Live = {}
  /\ wg = 0

\* C6: with finitely many Add calls, terminating sendToAPI calls and fair
\* scheduling, the Buffer eventually stays quiescent and a blocked wg.Wait()
\* returns.
C6_DrainConvergence ==
  /\ <>[]Quiescent
  /\ (wpc = "waiting") ~> (wpc = "returned")

\* everything was delivered and Wait has returned
C6_Witness ==
  /\ Quiescent
  /\ Len(outcomes) >= 2
  /\ wpc = "returned"

Drained ==
  /\ data = <<>>
  /\ ~isSending
  /\ InFlight = {}

\* C7 as stated: whenever the counter is 0 the Buffer is drained.
C7_Original == wg = 0 => Drained

\* C7 (amended): whenever the counter is 0 and no producer holds the mutex
\* inside Add, the queue is empty, isSending is false and no call is in
\* flight; a Wait that returns while no Add is running returns only after
\* the sendToAPI call of every appended item has returned.
C7_ZeroMeansDrained ==
  (wg = 0 /\ \A p \in Producers : mu # Prod(p)) => Drained

C7_WaitReturnsDrained ==
  (wpc = "waiting" /\ wpc' = "returned" /\ ~AnyInAdd)
    => (Range(enq) \subseteq Delivered /\ Len(enq) = TotalAdded)

C7_WaitMeansDrained == []C7_ZeroMeansDrained /\ [][C7_WaitReturnsDrained]_vars

\* Wait is blocked on a counter that has come back to 0 after deliveries
C7_Witness ==
  /\ wpc = "waiting"
  /\ wg = 0
  /\ ~AnyInAdd
  /\ Len(outcomes) >= 2

\* C8: at most one activation is in its working phase; an Add that found
\* isSending false runs with no working activation and its go statement
\* creates exactly one.
C8_OneWorking ==
  /\ Cardinality(Working) <= 1
  /\ \A p \in Producers : ppc[p] \in {"l65", "l66"} => Working = {}

C8_AddStartsOne ==
  \A p \in Producers :
    (ppc[p] = "l66" /\ ppc'[p] = "l68") =>
      /\ nact' = nact + 1
      /\ Cardinality(Working') = 1

C9_SendOutsideLock ==
  \A a \in Acts : apc[a] \in {"l83", "sending"} => mu # Act(a)

C9_ProducersNeverWait ==
  /\ []C9_SendOutsideLock
  /\ \A p \in Producers : (ppc[p] = "l60") ~> (ppc[p] = "idle")

\* a producer appended under the lock while a sendToAPI call was in flight
C9_Witness ==
  /\ InFlight # {}
  /\ \E p \in Producers : mu = Prod(p) /\ ppc[p] = "l63"

\* C10: with the mutex free, isSending false implies an empty queue, and a
\* non-empty queue has isSending true and a working activation; isSending is
\* cleared only by an activation that holds the lock and sees the queue empty.
C10_NoStranded ==
  mu = NoHolder =>
    /\ ~isSending => data = <<>>
    /\ data # <<>> => (isSending /\ Working # {})

C10_ClearOnlyWhenEmpty ==
  (isSending /\ ~isSending') => (data = <<>> /\ \E a \in Acts : mu = Act(a))

C10_NoStrandedWork == []C10_NoStranded /\ [][C10_ClearOnlyWhenEmpty]_vars

\* the Buffer returned to Idle after draining
C10_Witness ==
  /\ mu = NoHolder
  /\ ~isSending
  /\ Len(outcomes) >= 2

\* C11: an Add that finds isSending true only appends its item at the tail:
\* isSending, the counter, the items held by activations, the queued items
\* and their order, and the activations are unchanged.  An Add that finds
\* isSending false also sets it, adds exactly 1 to the counter and creates
\* exactly one activation, holding the mutex from the append to the go.
C11_AppendStep(p) ==
  (ppc[p] = "l62" /\ ppc'[p] # "l62") =>
    /\ data' = Append(data, <<p, added[p]>>)
    /\ UNCHANGED <<isSending, wg, item, apc, nact>>

C11_CheckStep(p) ==
  (ppc[p] = "l63" /\ ppc'[p] # "l63") =>
    /\ UNCHANGED <<data, wg, item, apc, nact>>
    /\ isSending => (isSending' /\ ppc'[p] = "l68")
    /\ ~isSending => (isSending' /\ ppc'[p] = "l65")

C11_StartSteps(p) ==
  /\ (ppc[p] = "l65" /\ ppc'[p] # "l65") =>
       /\ wg' = wg + 1
       /\ ppc'[p] = "l66"
       /\ UNCHANGED <<data, isSending, item, apc, nact>>
  /\ (ppc[p] = "l66" /\ ppc'[p] # "l66") =>
       /\ nact' = nact + 1
       /\ {a \in Acts : apc'[a] # apc[a]} = {nact'}
       /\ apc[nact'] = "unborn" /\ apc'[nact'] = "scheduled"
       /\ ppc'[p] = "l68"
       /\ UNCHANGED <<data, isSending, wg, item>>

C11_OneCriticalSection(p) ==
  (ppc[p] \in {"l62", "l63", "l65", "l66"} /\ ppc'[p] # ppc[p]) =>
    (mu = Prod(p) /\ mu' = Prod(p))

C11_AddFrame ==
  [][\A p \in Producers : /\ C11_AppendStep(p)
                          /\ C11_CheckStep(p)
                          /\ C11_StartSteps(p)
                          /\ C11_OneCriticalSection(p)]_vars

\* an Add appended behind a queued item while a drain was working
C11_Witness ==
  /\ \E p \in Producers : ppc[p] = "l68" /\ mu = Prod(p)
  /\ Len(data) >= 2
  /\ Working # {}

\* activations handing over: past a re-evaluation that found the queue
\* non-empty, or created and not yet inside their first critical section
HandingOver == {a \in Acts : apc[a] \in {"l90", "l91", "scheduled", "l73"}}

\* C12: from the re-evaluation that finds the queue non-empty to the start
\* of the successor isSending is true in every state and no step clears it,
\* so no Add is on the branch that starts a chain during the hand-off.
C12_FlagHeld ==
  HandingOver # {} =>
    /\ isSending
    /\ \A p \in Producers : ppc[p] \notin {"l65", "l66"}

C12_NoIdleGap == []C12_FlagHeld /\ [][HandingOver # {} => isSending']_vars

\* an Add is waiting for the mutex during a hand-off: the predecessor has
\* created its successor and still holds the mutex, the successor has not started
C12_Witness ==
  /\ \E a \in Acts : apc[a] = "deferUnlock" /\ mu = Act(a)
  /\ \E b \in Acts : apc[b] = "scheduled"
  /\ \E p \in Producers : ppc[p] = "l60"
  /\ isSending

\* positions of an activation after it cleared isSending or created its successor
PastDecision == {"l76", "deferUnlock", "deferDone", "done"}

\* C13: a step creates at most one activation, and an activation creates one
\* only from its go statement, after its own sendToAPI call returned and with
\* isSending true; past that statement, or past a statement that cleared
\* isSending, an activation creates none; the step that clears isSending
\* creates none.
C13_CreateStep ==
  nact' # nact =>
    /\ nact' = nact + 1
    /\ \/ \E p \in Producers : ppc[p] = "l66" /\ ppc'[p] = "l68"
       \/ \E a \in Acts : /\ apc[a] = "l91" /\ apc'[a] = "deferUnlock"
                          /\ item[a] \in Delivered
                          /\ isSending /\ isSending'

C13_NoSecondSuccessor ==
  \A a \in Acts :
    apc[a] \in PastDecision =>
      /\ apc'[a] \in PastDecision
      /\ apc'[a] # apc[a] => nact' = nact

C13_ClearCreatesNone ==
  (isSending /\ ~isSending') =>
    /\ nact' = nact
    /\ \E a \in Acts : apc[a] \in {"l74", "l87"} /\ apc'[a] \in PastDecision

C13_ChainShape ==
  [][C13_CreateStep /\ C13_NoSecondSuccessor /\ C13_ClearCreatesNone]_vars

\* an activation whose call returned has just created its successor
C13_Witness ==
  \E a, b \in Acts :
    /\ apc[a] = "deferUnlock" /\ mu = Act(a)
    /\ item[a] \in Delivered
    /\ apc[b] = "scheduled"

\* callers that have executed wg.Add(1) and not yet the go statement after it
PendingGo ==
  Cardinality({p \in Producers : ppc[p] = "l66"})
    + Cardinality({a \in Acts : apc[a] = "l91"})

\* C14 as stated: the counter always equals the number of activations that
\* are scheduled or running and have not exited, and is never negative.
C14_Original == wg = Cardinality(Live) /\ wg >= 0

\* C14 (amended): the counter equals the number of activations created and
\* not yet exited plus the number of callers between wg.Add(1) and the go
\* statement that follows it, and is never negative; the counter changes only
\* by +1 at a wg.Add(1) that precedes a go and by -1 at the exit of an
\* activation, and every exit (from either return) decrements it.
C14_Counter == wg = Cardinality(Live) + PendingGo /\ wg >= 0

C14_Steps ==
  /\ wg' # wg =>
       \/ /\ wg' = wg + 1
          /\ \/ \E p \in Producers : ppc[p] = "l65" /\ ppc'[p] = "l66"
             \/ \E a \in Acts : apc[a] = "l90" /\ apc'[a] = "l91"
       \/ /\ wg' = wg - 1
          /\ \E a \in Acts : apc[a] = "deferDone" /\ apc'[a] = "done"
  /\ \A a \in Acts :
       (apc[a] # "done" /\ apc'[a] = "done") => (apc[a] = "deferDone" /\ wg' = wg - 1)

C14_TrackerAccounting == []C14_Counter /\ [][C14_Steps]_vars

\* an activation has counted its successor and not yet created it, while the
\* previous chain's last activation has not yet called wg.Done
C14_Witness ==
  /\ \E a \in Acts : apc[a] = "l91"
  /\ wg = 2

\* C15 as stated: in every reachable state isSending true implies counter >= 1.
C15_Original == isSending => wg >= 1

\* C15 (amended): in every reachable state in which no Add is between its
\* isSending = true and its wg.Add(1), isSending true implies counter >= 1;
\* the counter is at least 1 whenever an activation is created and not yet
\* past its decision, so it is not 0 between the exit of an activation and
\* the start of its successor, nor between Add's go and the activation's start.
C15_TrackerNotZero ==
  /\ (isSending /\ \A p \in Producers : ppc[p] # "l65") => wg >= 1
  /\ Working # {} => wg >= 1

\* the predecessor has exited, the successor has not started, the counter is 1
C15_Witness ==
  /\ \E a \in Acts : apc[a] = "done"
  /\ \E b \in Acts : apc[b] = "scheduled"
  /\ isSending
  /\ wg = 1

\* activations that hold a popped item whose sendToAPI call has not returned
Holding == {a \in Acts : apc[a] \in {"l81", "l83", "sending"}}
Held == {item[a] : a \in Holding}

\* C16: every appended item is in exactly one of the queue, the item held by
\* the one activation between its pop and the return of its sendToAPI call,
\* and the delivered items; the pop happens under the lock before the call,
\* and the three counts add up to the number of appended items.
C16_Conservation ==
  /\ Range(data) \cup Held \cup Delivered = Range(enq)
  /\ Range(data) \cap Held = {}
  /\ Range(data) \cap Delivered = {}
  /\ Held \cap Delivered = {}
  /\ Cardinality(Holding) <= 1
  /\ Cardinality(Range(data)) = Len(data)
  /\ Len(enq) = Len(data) + Cardinality(Held) + Len(outcomes)
  /\ \A a \in Acts : apc[a] = "l81" => mu = Act(a)
  /\ \A a \in InFlight : item[a] = sent[Len(sent)] /\ Len(sent) = Len(outcomes) + 1

\* one item delivered, one in flight, one in the queue
C16_Witness ==
  /\ Len(outcomes) >= 1
  /\ InFlight # {}
  /\ Len(data) >= 1

\* C17: no activation ever takes the empty-queue return of sendData: from
\* its creation to its first test of the queue the queue is non-empty, and
\* no activation is ever at line 76.
C17_EarlyExitUnreachable ==
  \A a \in Acts :
    /\ apc[a] # "l76"
    /\ apc[a] \in {"scheduled", "l73", "l74"} => Len(data) >= 1

\* a chained activation holds the mutex and is about to test the queue
C17_Witness ==
  \E a \in Acts : a >= 2 /\ apc[a] = "l74" /\ mu = Act(a) /\ Len(data) >= 1

\* C18: Wait samples the counter only: a blocked Wait can return in every
\* state in which the counter is 0, whatever the queue holds; it returns only
\* on a counter of 0, changes nothing of the Buffer, and an item not yet
\* delivered at that moment is the item of an Add still running, between its
\* append and its wg.Add(1).  The witness is
\* the execution of the claim: Wait was called, an Add appended its item and
\* has not yet counted its activation, and Wait can return with the item queued.
C18_ReturnsOnZero == (wpc = "waiting" /\ wg = 0) => ENABLED WaitReturn

C18_ReturnStep ==
  (wpc = "waiting" /\ wpc' = "returned") =>
    /\ wg = 0
    /\ UNCHANGED <<bufVars, prodVars, actVars, histVars>>
    /\ \A i \in Range(enq) \ Delivered :
         \E p \in Producers : i = <<p, added[p]>> /\ ppc[p] \in {"l63", "l65"}

C18_OneShotSample == []C18_ReturnsOnZero /\ [][C18_ReturnStep]_vars

C18_Witness ==
  /\ wpc = "waiting"
  /\ ENABLED WaitReturn
  /\ data # <<>>
  /\ \E p \in Producers : mu = Prod(p) /\ <<p, added[p]>> \in Range(data)

ErrorMessages == {"Error creating request", "Error sending request",
                  "Error reading response body", "Error unmarshalling JSON",
                  "Error response from API"}

\* C19: a sendToAPI call that has returned has printed exactly one message;
\* it is the success message if and only if request construction, the
\* transport call, reading the body and decoding all succeeded and the HTTP
\* status is 200, whatever the decoded STATUS field; otherwise it is one of
\* the five error messages; before the return nothing is printed and the
\* call always has a next statement (it ends by returning).
C19_Classification ==
  /\ sinkpc = "ret" =>
       /\ Len(printed) = 1
       /\ printed[1] = "Data successfully sent to API"
            <=> (/\ ~sinkEnv.reqErr /\ ~sinkEnv.doErr /\ ~sinkEnv.readErr
                 /\ ~sinkEnv.jsonErr /\ sinkEnv.status = StatusOK)
       /\ printed[1] # "Data successfully sent to API" => printed[1] \in ErrorMessages
       /\ printed[1] = sendToAPI(sinkEnv)
       /\ (Outcome(sinkEnv) = "ok") <=> (printed[1] \notin ErrorMessages)
  /\ sinkpc \in {"l103", "l111", "l118", "l125", "l131", "l136"} =>
       (printed = <<>> /\ ENABLED SinkNext)

\* a call succeeded although the decoded STATUS field is not "OK"
C19_Witness ==
  /\ sinkpc = "ret"
  /\ printed = <<"Data successfully sent to API">>
  /\ sinkEnv.apiStatus = "ERROR"

====
